---- MODULE Spec2Model ----
(***************************************************************************)
(* Model of the board-parser crate of go-score: the dark-pixel classifier, *)
(* the blob extractor (find_black_objects / flood_fill), the stone filter  *)
(* (find_black_stones) and the lattice step of board_map.                  *)
(*                                                                         *)
(* Three specifications share the variables:                               *)
(*   Spec      find_black_objects on every small mask, one flood_fill pop  *)
(*             per step;                                                   *)
(*   SpecPixel the per-pixel classifier of find_black_stones;              *)
(*   SpecPipe  the pipeline from the list of flood-filled objects to the   *)
(*             result of board_map (board.rs) or to the values xd.rs       *)
(*             derives from find_black_stones.                             *)
(***************************************************************************)
EXTENDS Integers, Sequences, FiniteSets, TLC

VARIABLES
    pc,             \* position in the modelled function
    image,          \* BlackPixels: the mask, consumed by the scan
    dims,           \* <<width, height>> of the mask
    current_point,  \* find_black_objects: the scan cursor
    objects,        \* find_black_objects: the objects found so far
    object,         \* flood_fill: the object being filled
    point_queue,    \* flood_fill: the work stack
    returned,       \* find_black_objects: the filtered list it returns
    input_image,    \* history: the mask as it was handed in
    cleared,        \* history: the cells the running flood_fill has cleared
    object_cells,   \* history: per element of objects, the cells its fill cleared
    advances,       \* history: number of cursor advances of the scan
    pops,           \* history: number of pops of the running flood_fill
    entry_image,    \* history: the mask as the running flood_fill was handed it
    pixel,          \* find_black_stones: the [r, g, b] of the pixel being classified
    is_black,       \* find_black_stones: the value pushed to the mask row for it
    version,        \* "board" (board.rs) or "xd" (xd.rs)
    stones,         \* find_black_stones: the objects the stone filter keeps
    stone_size_x2,  \* find_black_stones: twice the f32 it returns with the stones
    stone_centers,  \* board_map: the centers of the stones
    intersection_stones, \* transformation_error: intersection -> its claimants
    stones_to_reassign, \* transformation_error: the claimants drained from their intersection (a set: the order is that of a HashMap)
    result,         \* the outcome of the call: what board_map or xd returns, or a panic
    called,         \* history: the functions and loops entered so far
    center_distances, \* xd: the sampled distances
    pairs,          \* history: the index pairs (from 0) the sampler has taken
    neighbor_stone_distance, \* xd: the estimate the loop refines
    average_change, \* xd: average_change of the last iteration
    iterations,     \* history: iterations of the refinement loop so far
    factor,         \* the common factor the blobs are scaled by
    scaled_stones   \* find_black_stones: what the stone filter keeps of the scaled blobs

scanVars == <<image, dims, current_point, object, point_queue, input_image,
              cleared, object_cells, advances, pops, entry_image>>
listVars == <<objects, returned>>
pixelVars == <<pixel, is_black>>
pipeVars == <<version, stones, stone_size_x2, stone_centers,
              intersection_stones, stones_to_reassign, result, called>>
xdVars == <<center_distances, pairs, neighbor_stone_distance, average_change,
            iterations>>
scaleVars == <<factor, scaled_stones>>
vars == <<pc, scanVars, listVars, pixelVars, pipeVars, xdVars, scaleVars>>

(***************************************************************************)
(* Bounds                                                                  *)
(***************************************************************************)
\* Masks have at most this many cells (width * height).
MaxCells == 9
\* Pixels take every channel value up to this one (and two bright values).
MaxDark == 40
\* The input of the pipeline has at most this many objects.
MaxBlobs == 7
\* Objects of the input are laid out this many to a row.
RowLength == 3

(***************************************************************************)
(* Program constants, board.rs                                             *)
(***************************************************************************)
BLACK_THRESHOLD == 30
GRAYNESS_LIMIT == 8
MIN_STONE_SIZE == 8
\* A threshold one stone too low.
MIN_BLACK_STONES_ON_BOARD_Low == 6 - 1

MIN_BLACK_STONES_ON_BOARD == 6

\* xd.rs
MIN_STONE_SIZE_XD == 5

(***************************************************************************)
(* Points and objects                                                      *)
(***************************************************************************)
Point_new(x, y) == [x |-> x, y |-> y]

Min(a, b) == IF a < b THEN a ELSE b
Max(a, b) == IF a > b THEN a ELSE b

BlackStone_new(at) == [top_left |-> at, bottom_right |-> at]

\* A push that forgets to extend the right edge.
BlackStone_push_NoRight(self, point) ==
    [top_left |-> Point_new(Min(self.top_left.x, point.x),
                            Min(self.top_left.y, point.y)),
     bottom_right |-> Point_new(self.bottom_right.x,
                                Max(self.bottom_right.y, point.y))]

\* A push that takes the maximum for the top left corner and the minimum for
\* the bottom right one.
BlackStone_push_Swapped(self, point) ==
    [top_left |-> Point_new(Max(self.top_left.x, point.x),
                            Max(self.top_left.y, point.y)),
     bottom_right |-> Point_new(Min(self.bottom_right.x, point.x),
                                Min(self.bottom_right.y, point.y))]

BlackStone_push(self, point) ==
    [top_left |-> Point_new(Min(self.top_left.x, point.x),
                            Min(self.top_left.y, point.y)),
     bottom_right |-> Point_new(Max(self.bottom_right.x, point.x),
                                Max(self.bottom_right.y, point.y))]

BlackStone_width(self) == self.bottom_right.x - self.top_left.x

BlackStone_height(self) == self.bottom_right.y - self.top_left.y

(***************************************************************************)
(* The mask                                                                *)
(***************************************************************************)
Cells(w, h) == {Point_new(x, y) : x \in 0..(w - 1), y \in 0..(h - 1)}

\* A lookup in a flat row-major buffer: the address past the end of a row is
\* the start of the next row.
pixel_value_Flat(vec, x, y, default) ==
    LET a == y * dims[1] + x
    IN  IF x < 0 \/ y < 0 THEN default
        ELSE IF a < dims[1] * dims[2]
             THEN vec[Point_new(a % dims[1], a \div dims[1])]
        ELSE default

\* vec.get(y).get(x) with the default for every address outside the mask.
pixel_value(vec, x, y, default) ==
    IF x < 0 \/ y < 0 THEN default
    ELSE IF Point_new(x, y) \in DOMAIN vec THEN vec[Point_new(x, y)]
    ELSE default

\* The Moore neighbourhood in the order of the two nested loops of flood_fill.
MooreOffsets ==
    << <<-1, -1>>, <<0, -1>>, <<1, -1>>,
       <<-1,  0>>, <<0,  0>>, <<1,  0>>,
       <<-1,  1>>, <<0,  1>>, <<1,  1>> >>

\* The pushes of a fill over the four edge neighbours only.
MoorePushes_EdgeOnly(img, point) ==
    LET cand == << Point_new(point.x, point.y - 1),
                   Point_new(point.x - 1, point.y),
                   Point_new(point.x + 1, point.y),
                   Point_new(point.x, point.y + 1) >>
    IN  SelectSeq(cand, LAMBDA p : p.y >= 0 /\ p.x >= 0
                                   /\ pixel_value(img, p.x, p.y, FALSE))

\* The points one pop of flood_fill pushes, in push order, read from the mask
\* after the popped point has been cleared.
MoorePushes(img, point) ==
    LET cand == [i \in 1..9 |-> Point_new(point.x + MooreOffsets[i][1],
                                          point.y + MooreOffsets[i][2])]
    IN  SelectSeq(cand, LAMBDA p : p.y >= 0 /\ p.x >= 0
                                   /\ pixel_value(img, p.x, p.y, FALSE))

last_point == Point_new(dims[1] - 1, dims[2] - 1)

\* A cursor step that takes the next row one column early.
NextPoint_EarlyWrap(p) ==
    IF p.x + 1 >= last_point.x THEN Point_new(0, p.y + 1)
    ELSE Point_new(p.x + 1, p.y)

\* The cursor step at the end of the scan loop body.
NextPoint(p) ==
    IF p.x = last_point.x THEN Point_new(0, p.y + 1)
    ELSE Point_new(p.x + 1, p.y)

(***************************************************************************)
(* find_black_objects: the size post-filter                                *)
(***************************************************************************)
\* The filter with a non-strict upper end of the aspect gate.
find_black_objects_filter_WideAspect(obj) ==
    LET w == BlackStone_width(obj)
        h == BlackStone_height(obj)
    IN  /\ w > MIN_STONE_SIZE
        /\ h > MIN_STONE_SIZE
        /\ 100 * w > 66 * h
        /\ 2 * w <= 3 * h

\* board.rs.  The f32 comparisons w > h * 0.66 and w < h * 1.5 on the
\* integer-valued w and h, as integer inequalities.
find_black_objects_filter(obj) ==
    LET w == BlackStone_width(obj)
        h == BlackStone_height(obj)
    IN  /\ w > MIN_STONE_SIZE
        /\ h > MIN_STONE_SIZE
        /\ 100 * w > 66 * h
        /\ 2 * w < 3 * h

\* The xd.rs filter asking for both dimensions.
find_black_objects_filter_xd_Both(obj) ==
    /\ BlackStone_width(obj) > MIN_STONE_SIZE_XD
    /\ BlackStone_height(obj) > MIN_STONE_SIZE_XD

\* xd.rs.
find_black_objects_filter_xd(obj) ==
    \/ BlackStone_width(obj) > MIN_STONE_SIZE_XD
    \/ BlackStone_height(obj) > MIN_STONE_SIZE_XD

PostFilter(v, objs) ==
    IF v = "board" THEN SelectSeq(objs, find_black_objects_filter)
    ELSE SelectSeq(objs, find_black_objects_filter_xd)

(***************************************************************************)
(* Values of the variables a specification does not use                    *)
(***************************************************************************)
NoObject == BlackStone_new(Point_new(0, 0))

\* The outcome of a call: not yet returned, Option::None, or an abort.  A
\* returned BoardMap m would be [kind |-> "Some", map |-> m].
Pending == [kind |-> "pending"]
None == [kind |-> "None"]
Panicked == [kind |-> "panic"]

ScanIdle ==
    /\ image = <<>>
    /\ dims = <<0, 0>>
    /\ current_point = Point_new(0, 0)
    /\ object = NoObject
    /\ point_queue = <<>>
    /\ input_image = <<>>
    /\ cleared = {}
    /\ object_cells = <<>>
    /\ advances = 0
    /\ pops = 0
    /\ entry_image = <<>>

PixelIdle ==
    /\ pixel = <<0, 0, 0>>
    /\ is_black = FALSE

PipeIdle ==
    /\ stones = <<>>
    /\ stone_size_x2 = 0
    /\ stone_centers = <<>>
    /\ intersection_stones = <<>>
    /\ stones_to_reassign = {}
    /\ result = Pending
    /\ called = {}

\* An f32 of the refinement loop: NaN, or the fraction num / den, den > 0, in
\* lowest terms.
NaN == [nan |-> TRUE, num |-> 0, den |-> 1]
Zero == [nan |-> FALSE, num |-> 0, den |-> 1]

XdIdle ==
    /\ center_distances = <<>>
    /\ pairs = <<>>
    /\ neighbor_stone_distance = Zero
    /\ average_change = Zero
    /\ iterations = 0

ScaleIdle ==
    /\ factor = 1
    /\ scaled_stones = <<>>

(***************************************************************************)
(* Spec: find_black_objects                                                *)
(***************************************************************************)
MaskDims == {d \in (1..MaxCells) \X (1..MaxCells) : d[1] * d[2] <= MaxCells}

Init ==
    /\ dims \in MaskDims
    /\ image \in [Cells(dims[1], dims[2]) -> BOOLEAN]
    /\ input_image = image
    /\ pc = "scan"
    /\ current_point = Point_new(0, 0)
    /\ objects = <<>>
    /\ object = NoObject
    /\ point_queue = <<>>
    /\ returned = <<>>
    /\ cleared = {}
    /\ object_cells = <<>>
    /\ advances = 0
    /\ pops = 0
    /\ entry_image = <<>>
    /\ version \in {"board", "xd"}
    /\ PixelIdle
    /\ PipeIdle
    /\ XdIdle
    /\ ScaleIdle

\* The scan meets a highlighted cell: BlackStone::new and the entry of
\* flood_fill.
ScanSeed ==
    /\ pc = "scan"
    /\ current_point # last_point
    /\ pixel_value(image, current_point.x, current_point.y, FALSE)
    /\ object' = BlackStone_new(current_point)
    /\ point_queue' = <<current_point>>
    /\ cleared' = {}
    /\ pops' = 0
    /\ entry_image' = image
    /\ pc' = "fill"
    /\ UNCHANGED <<image, dims, current_point, input_image, object_cells,
                   advances, listVars, pixelVars, pipeVars, xdVars, scaleVars>>

\* One iteration of the while-let loop of flood_fill.
FloodFillPop ==
    /\ pc = "fill"
    /\ point_queue # <<>>
    /\ LET point == point_queue[Len(point_queue)]
           rest == SubSeq(point_queue, 1, Len(point_queue) - 1)
           img == [image EXCEPT ![point] = FALSE]
       IN  /\ object' = BlackStone_push(object, point)
           /\ image' = img
           /\ point_queue' = rest \o MoorePushes(img, point)
           /\ cleared' = cleared \cup {point}
           /\ pops' = pops + 1
    /\ UNCHANGED <<pc, dims, current_point, input_image, object_cells,
                   advances, entry_image, listVars, pixelVars, pipeVars,
                   xdVars, scaleVars>>

\* flood_fill returns; the object is pushed and the cursor advances.
FloodFillReturn ==
    /\ pc = "fill"
    /\ point_queue = <<>>
    /\ objects' = Append(objects, object)
    /\ object_cells' = Append(object_cells, cleared)
    /\ current_point' = NextPoint(current_point)
    /\ advances' = advances + 1
    /\ pc' = "scan"
    /\ UNCHANGED <<image, dims, object, point_queue, input_image, cleared,
                   pops, entry_image, returned, pixelVars, pipeVars, xdVars,
                   scaleVars>>

\* The scan meets a cell that is not highlighted.
ScanSkip ==
    /\ pc = "scan"
    /\ current_point # last_point
    /\ ~pixel_value(image, current_point.x, current_point.y, FALSE)
    /\ current_point' = NextPoint(current_point)
    /\ advances' = advances + 1
    /\ UNCHANGED <<pc, image, dims, object, point_queue, input_image, cleared,
                   object_cells, pops, entry_image, listVars, pixelVars,
                   pipeVars, xdVars, scaleVars>>

\* The cursor equals last_point: the loop exits and the list is filtered.
ScanReturn ==
    /\ pc = "scan"
    /\ current_point = last_point
    /\ returned' = PostFilter(version, objects)
    /\ pc' = "returned"
    /\ UNCHANGED <<scanVars, objects, pixelVars, pipeVars, xdVars, scaleVars>>

Next == ScanSeed \/ FloodFillPop \/ FloodFillReturn \/ ScanSkip \/ ScanReturn

Spec == Init /\ [][Next]_vars

\* The call runs on one thread which executes its next step whenever there is
\* one.
SpecLive == Spec /\ WF_vars(Next)

(***************************************************************************)
(* Properties of find_black_objects and flood_fill (under Spec)            *)
(***************************************************************************)
TrueCells(img) == {p \in DOMAIN img : img[p]}

Adjacent8(p, q) ==
    /\ p # q
    /\ p.x - q.x \in {-1, 0, 1}
    /\ p.y - q.y \in {-1, 0, 1}

\* The cells of T reachable from S by steps between 8-adjacent cells of T.
RECURSIVE Reach(_, _)
Reach(S, T) ==
    LET more == S \cup {q \in T : \E p \in S : Adjacent8(p, q)}
    IN  IF more = S THEN S ELSE Reach(more, T)

\* The maximal 8-connected set of true cells of img that holds p.
ComponentOf(img, p) == Reach({p}, TrueCells(img))

ScanExited == pc = "returned"

\* C1: when the scan loop has exited, the cell sets of the flood-filled
\* components partition the true cells of the input mask: every true cell is
\* in exactly one component, and every component is one maximal 8-connected
\* set of true cells.
C1_BlobPartition ==
    ScanExited =>
        /\ \A c \in TrueCells(input_image) :
               Cardinality({i \in 1..Len(object_cells) :
                                c \in object_cells[i]}) = 1
        /\ \A i \in 1..Len(object_cells) :
               \E c \in object_cells[i] :
                   object_cells[i] = ComponentOf(input_image, c)

\* The part of C1 the code does satisfy: the same partition, of the true cells
\* other than a last cell that has no true neighbour.
IsolatedLast(img) ==
    IF pixel_value(img, last_point.x, last_point.y, FALSE)
       /\ ComponentOf(img, last_point) = {last_point}
    THEN {last_point} ELSE {}

BlobPartitionButLast ==
    ScanExited =>
        /\ \A c \in TrueCells(input_image) \ IsolatedLast(input_image) :
               Cardinality({i \in 1..Len(object_cells) :
                                c \in object_cells[i]}) = 1
        /\ \A i \in 1..Len(object_cells) :
               \E c \in object_cells[i] :
                   object_cells[i] = ComponentOf(input_image, c)
        /\ \A i \in 1..Len(object_cells) :
               IsolatedLast(input_image) \cap object_cells[i] = {}

\* The box is the bounding box of the cell set: a cell on each of its four
\* edges and no cell outside.
TightBox(box, cells) ==
    /\ \E c \in cells : c.x = box.top_left.x
    /\ \E c \in cells : c.x = box.bottom_right.x
    /\ \E c \in cells : c.y = box.top_left.y
    /\ \E c \in cells : c.y = box.bottom_right.y
    /\ \A c \in cells : /\ box.top_left.x <= c.x
                        /\ c.x <= box.bottom_right.x
                        /\ box.top_left.y <= c.y
                        /\ c.y <= box.bottom_right.y

FloodFillReturning == pc = "fill" /\ point_queue = <<>>

\* C2: when flood_fill returns, and for every object pushed after its
\* return, the box is exactly the bounding box of the cells the fill cleared.
C2_BoundingBoxTight ==
    /\ FloodFillReturning => TightBox(object, cleared)
    /\ \A i \in 1..Len(objects) : TightBox(objects[i], object_cells[i])

\* A fill returns whose box grew to the left of, to the right of and below
\* its seed.
C2_Witness ==
    /\ FloodFillReturning
    /\ object.top_left.x < current_point.x
    /\ object.bottom_right.x > current_point.x
    /\ object.bottom_right.y > current_point.y
    /\ TightBox(object, cleared)

\* The corners of a blob are in order, so that width() and height() do not
\* underflow.
BoxOrdered(o) ==
    /\ o.top_left.x <= o.bottom_right.x
    /\ o.top_left.y <= o.bottom_right.y

\* C18: from BlackStone::new through every step of flood_fill to the returned
\* list, every blob has top_left.x <= bottom_right.x and
\* top_left.y <= bottom_right.y.
C18_BlobBoxInvariant ==
    /\ pc = "fill" => BoxOrdered(object)
    /\ \A i \in 1..Len(objects) : BoxOrdered(objects[i])
    /\ \A i \in 1..Len(returned) : BoxOrdered(returned[i])

\* The scan has returned a list with a blob in it, after a fill that widened
\* the blob beyond its seed.
C18_Witness ==
    /\ pc = "returned"
    /\ returned # <<>>
    /\ BlackStone_width(returned[1]) > MIN_STONE_SIZE_XD
    /\ Len(objects) > Len(returned)

\* Row-major order of cells: increasing y, then increasing x.
RowMajorBefore(p, q) == p.y < q.y \/ (p.y = q.y /\ p.x < q.x)

\* The cell of a component the scan meets first.
FirstCell(cells) ==
    CHOOSE p \in cells : \A q \in cells \ {p} : RowMajorBefore(p, q)

\* The scan seeds every fill at the first cell of its component, and pushes
\* the objects in the row-major order of those cells; the post-filter keeps
\* that order.
ScanMeetsInOrder ==
    /\ pc = "fill" =>
           \A q \in cleared \ {current_point} :
               RowMajorBefore(current_point, q)
    /\ \A i, j \in 1..Len(object_cells) :
           i < j => RowMajorBefore(FirstCell(object_cells[i]),
                                   FirstCell(object_cells[j]))
    /\ pc = "returned" =>
           returned = SelectSeq(objects, LAMBDA o :
                          \E i \in 1..Len(returned) : returned[i] = o)

\* The number of cells of the mask.
MaskSize == dims[1] * dims[2]

\* C21: every call to flood_fill empties its work stack after finitely many
\* pops, and the scan loop exits, with the cursor at (width - 1, height - 1),
\* after exactly width * height - 1 cursor advances.
C21_Termination ==
    /\ [](pc = "fill" => <>FloodFillReturning)
    /\ <>ScanExited
    /\ [](advances <= MaskSize - 1)
    /\ [](ScanExited => advances = MaskSize - 1 /\ current_point = last_point)

\* The scan has exited after a fill that emptied its stack with more pops
\* than it cleared cells: a cell was pushed again before it was first popped.
C21_Witness ==
    /\ ScanExited
    /\ advances = MaskSize - 1
    /\ Len(objects) = 1
    /\ pops > Cardinality(object_cells[1])

\* The last cell of the mask was true in the input and none of its
\* 8-neighbours was.
LastCellAlone ==
    /\ input_image[last_point]
    /\ \A q \in DOMAIN input_image :
           Adjacent8(last_point, q) => ~input_image[q]

\* C22: when the scan loop exits, every cell of the mask other than the last
\* cell (width - 1, height - 1) is false; the last cell is still true exactly
\* when it was true in the input and none of its 8-neighbours was true in the
\* input, and then no object holds it.
C22_MaskConsumed ==
    ScanExited =>
        /\ \A c \in DOMAIN image \ {last_point} : ~image[c]
        /\ image[last_point] <=> LastCellAlone
        /\ image[last_point] =>
               \A i \in 1..Len(object_cells) :
                   last_point \notin object_cells[i]

\* The scan has exited with the last cell still true, after it filled another
\* component of the mask.
C22_Witness ==
    /\ ScanExited
    /\ image[last_point]
    /\ LastCellAlone
    /\ Len(objects) >= 1
    /\ Cardinality(object_cells[1]) >= 2

\* The scan has exited with the last cell cleared by the fill of a component
\* it belongs to.
LastCellAbsorbed ==
    /\ ScanExited
    /\ input_image[last_point]
    /\ ~image[last_point]
    /\ last_point \in object_cells[Len(object_cells)]

\* The addresses at which one pop of flood_fill calls pixel_value: the Moore
\* neighbourhood of the popped point without the negative addresses the two
\* loops skip.
Probes(point) ==
    {p \in {Point_new(point.x + MooreOffsets[i][1],
                      point.y + MooreOffsets[i][2]) : i \in 1..9} :
        p.x >= 0 /\ p.y >= 0}

\* C23: a running flood_fill has set to false only cells that were 8-connected
\* to its seed through true cells of the mask it was handed, has turned no
\* cell from false to true, has left every cell outside the seed's component
\* as it was, and indexes no cell outside the mask: every point it pops is a
\* cell of the mask, it probes no negative address, and an address at or past
\* the width or the height reads as false.
C23_FloodFillFrame ==
    pc = "fill" =>
        /\ entry_image[current_point]
        /\ cleared \subseteq ComponentOf(entry_image, current_point)
        /\ \A c \in DOMAIN image :
               /\ image[c] => entry_image[c]
               /\ c \notin ComponentOf(entry_image, current_point) =>
                      image[c] = entry_image[c]
               /\ c \notin cleared => image[c] = entry_image[c]
        /\ \A i \in 1..Len(point_queue) :
               /\ point_queue[i] \in Cells(dims[1], dims[2])
               /\ \A p \in Probes(point_queue[i]) :
                      p \notin Cells(dims[1], dims[2]) =>
                          ~pixel_value(image, p.x, p.y, FALSE)

\* A fill is returning that was seeded on the right edge of the first row,
\* cleared cells of the next row, and left a true cell of another component,
\* in the first column, as it was.
C23_Witness ==
    /\ FloodFillReturning
    /\ dims[1] >= 3
    /\ current_point = Point_new(dims[1] - 1, 0)
    /\ Cardinality(cleared) >= 2
    /\ \E c \in DOMAIN image :
           /\ c.x = 0
           /\ image[c]
           /\ c # last_point
           /\ c \notin ComponentOf(entry_image, current_point)

(***************************************************************************)
(* SpecPixel: the classifier of find_black_stones, one pixel               *)
(***************************************************************************)
\* A u8 subtraction without the comparison that orders its operands.
diff_Wrapping(self, other) == (self - other) % 256

\* NumExt::diff on u8.
diff(self, other) == IF self > other THEN self - other ELSE other - self

is_gray(r, g, b) ==
    /\ diff(r, g) <= GRAYNESS_LIMIT
    /\ diff(r, b) <= GRAYNESS_LIMIT
    /\ diff(g, b) <= GRAYNESS_LIMIT

\* The value pushed to the mask row for the pixel [r, g, b].
black_pixel(r, g, b) == r < BLACK_THRESHOLD /\ is_gray(r, g, b)

\* The channel values pixels are drawn from: every dark value and two bright.
PixelBytes == (0..MaxDark) \cup {128, 255}

InitPixel ==
    /\ pc = "pixel"
    /\ pixel \in PixelBytes \X PixelBytes \X PixelBytes
    /\ is_black = FALSE
    /\ objects = <<>>
    /\ returned = <<>>
    /\ version = "board"
    /\ ScanIdle
    /\ PipeIdle
    /\ XdIdle
    /\ ScaleIdle

\* The body of the inner loop over the pixels of a row.
ClassifyPixel ==
    /\ pc = "pixel"
    /\ is_black' = black_pixel(pixel[1], pixel[2], pixel[3])
    /\ pc' = "classified"
    /\ UNCHANGED <<pixel, scanVars, listVars, pipeVars, xdVars, scaleVars>>

NextPixel == ClassifyPixel

SpecPixel == InitPixel /\ [][NextPixel]_vars

Abs(n) == IF n < 0 THEN -n ELSE n

\* C6: the mask cell of a pixel (R,G,B) is true exactly when R < 30 and
\* |R-G| <= 8 and |R-B| <= 8 and |G-B| <= 8.
C6_PixelClassifier ==
    pc = "classified" =>
        (is_black <=> /\ pixel[1] < 30
                      /\ Abs(pixel[1] - pixel[2]) <= 8
                      /\ Abs(pixel[1] - pixel[3]) <= 8
                      /\ Abs(pixel[2] - pixel[3]) <= 8)

\* A pixel with R = 29 whose channels differ by exactly 8 is classified true.
C6_Witness ==
    /\ pc = "classified"
    /\ pixel = <<29, 37, 29>>
    /\ is_black

\* The two boundary cases the claim names: R = 29 achromatic is true, R = 30
\* is false.
C6_Boundary ==
    pc = "classified" =>
        /\ (pixel[1] = 29 /\ pixel[2] = 29 /\ pixel[3] = 29 => is_black)
        /\ (pixel[1] = 30 => ~is_black)

(***************************************************************************)
(* find_black_stones: the stone filter                                     *)
(***************************************************************************)
\* s with x inserted, for an ascending s.
SortedInsert(x, s) ==
    LET k == Cardinality({i \in 1..Len(s) : s[i] <= x})
    IN  SubSeq(s, 1, k) \o <<x>> \o SubSeq(s, k + 1, Len(s))

\* Vec::sort on the widths and the heights.
RECURSIVE sort(_)
sort(s) == IF s = <<>> THEN <<>> ELSE SortedInsert(Head(s), sort(Tail(s)))

widths(black_objects) ==
    [i \in 1..Len(black_objects) |-> BlackStone_width(black_objects[i])]

heights(black_objects) ==
    [i \in 1..Len(black_objects) |-> BlackStone_height(black_objects[i])]

\* The element at index len / 2 of the sorted vector (indices from 0).
Middle(sorted) == sorted[Len(sorted) \div 2 + 1]

mean_width(black_objects) == Middle(sort(widths(black_objects)))

mean_height(black_objects) == Middle(sort(heights(black_objects)))

\* The filter closure with a non-strict upper end.
stone_filter_Inclusive(obj, mw, mh) ==
    LET w == BlackStone_width(obj)
        h == BlackStone_height(obj)
    IN  /\ 2 * w <= 3 * mw
        /\ 100 * w > 66 * mw
        /\ 2 * h <= 3 * mh
        /\ 100 * h > 66 * mh

\* The filter closure in integer arithmetic, mean * 3 / 2 and mean * 66 / 100
\* with truncating divisions.
stone_filter_Integer(obj, mw, mh) ==
    LET w == BlackStone_width(obj)
        h == BlackStone_height(obj)
    IN  /\ w < (3 * mw) \div 2
        /\ w > (66 * mw) \div 100
        /\ h < (3 * mh) \div 2
        /\ h > (66 * mh) \div 100

\* The filter closure: w < mean_width * 1.5 && w > mean_width * 0.66 and the
\* same for h.  For integer-valued operands below 2^24 the f32 products and
\* comparisons decide as the exact ones do (0.66f32 exceeds 0.66 by less than
\* one rounding step, and every integer in range is an f32).
stone_filter(obj, mw, mh) ==
    LET w == BlackStone_width(obj)
        h == BlackStone_height(obj)
    IN  /\ 2 * w < 3 * mw
        /\ 100 * w > 66 * mw
        /\ 2 * h < 3 * mh
        /\ 100 * h > 66 * mh

\* A filter that collects the accepted objects last to first.
filter_stones_Reversed(black_objects) ==
    LET mw == mean_width(black_objects)
        mh == mean_height(black_objects)
        kept == SelectSeq(black_objects, LAMBDA o : stone_filter(o, mw, mh))
    IN  [i \in 1..Len(kept) |-> kept[Len(kept) + 1 - i]]

filter_stones(black_objects) ==
    LET mw == mean_width(black_objects)
        mh == mean_height(black_objects)
    IN  SelectSeq(black_objects, LAMBDA o : stone_filter(o, mw, mh))

\* Twice the f32 returned beside the stones:
\* board.rs (mean_height + mean_width) / 2.0, xd.rs (mean_height + mean_width).
returned_size_x2(v, black_objects) ==
    IF v = "board"
    THEN mean_height(black_objects) + mean_width(black_objects)
    ELSE 2 * (mean_height(black_objects) + mean_width(black_objects))

\* The midpoint rounded down: top_left + (bottom_right - top_left) / 2.
BlackStone_center_Low(self) ==
    Point_new(self.top_left.x
                  + (self.bottom_right.x - self.top_left.x) \div 2,
              self.top_left.y
                  + (self.bottom_right.y - self.top_left.y) \div 2)

BlackStone_center(self) ==
    Point_new(self.bottom_right.x
                  - (self.bottom_right.x - self.top_left.x) \div 2,
              self.bottom_right.y
                  - (self.bottom_right.y - self.top_left.y) \div 2)

centers(stns) == [i \in 1..Len(stns) |-> BlackStone_center(stns[i])]

(***************************************************************************)
(* board_map and transformation_error                                      *)
(*                                                                         *)
(* The f32 quantities are kept as exact fractions.  With                   *)
(*   center = (360, 760), stretch = (1/10000, 1/9000),                     *)
(*   intersection_spacing = (stone_size - 0.5, stone_size + 2.0),          *)
(*   intersection_spacing_increment = (1/3000, 1/3000)                     *)
(* and s2 = 2 * stone_size, a stone at (x, y) has                          *)
(*   stone_x = x - 360, stone_y = y - 760,                                 *)
(*   transformation_inverse.x = stone_x * (10000 - stone_y) / 10000 = A/10000 *)
(*   transformation_inverse.y = stone_y * (9000 - stone_x) / 9000  = B/9000  *)
(*   column = 3000 * A / (15000000 * (s2 - 1) + A)                         *)
(*   row    = 3000 * B / (13500000 * (s2 + 4) + B)                         *)
(* Both denominators are positive for the stones of the model.             *)
(***************************************************************************)
LatticeCenter == Point_new(360, 760)
StretchInverseX == 10000
StretchInverseY == 9000
SpacingIncrementInverse == 3000

\* <<q, r>> with k * a = q * d + r and 0 <= r < d, for k >= 0 and d > 0,
\* by doubling, so that no intermediate value exceeds 2 * d.
RECURSIVE ScaledDivMod(_, _, _)
ScaledDivMod(k, a, d) ==
    IF k = 0 THEN <<0, 0>>
    ELSE LET half == ScaledDivMod(k \div 2, a, d)
             c1 == IF half[2] >= d - half[2] THEN 1 ELSE 0
             q2 == 2 * half[1] + c1
             r2 == IF c1 = 1 THEN half[2] - (d - half[2])
                   ELSE half[2] + half[2]
             ra == a % d
             c2 == IF r2 >= d - ra THEN 1 ELSE 0
         IN  IF k % 2 = 0 THEN <<q2, r2>>
             ELSE <<q2 + (a \div d) + c2,
                    IF c2 = 1 THEN r2 - (d - ra) ELSE r2 + ra>>

\* column as <<floor, remainder, denominator>>: column = floor + remainder / denominator.
column(stone, s2) ==
    LET stone_x == stone.x - LatticeCenter.x
        stone_y == stone.y - LatticeCenter.y
        A == stone_x * (StretchInverseX - stone_y)
        D == (SpacingIncrementInverse \div 2) * StretchInverseX * (s2 - 1) + A
        qr == ScaledDivMod(SpacingIncrementInverse, A, D)
    IN  <<qr[1], qr[2], D>>

row(stone, s2) ==
    LET stone_x == stone.x - LatticeCenter.x
        stone_y == stone.y - LatticeCenter.y
        B == stone_y * (StretchInverseY - stone_x)
        D == (SpacingIncrementInverse \div 2) * StretchInverseY * (s2 + 4) + B
        qr == ScaledDivMod(SpacingIncrementInverse, B, D)
    IN  <<qr[1], qr[2], D>>

\* Of floor and ceil the one with the smaller squared distance; on a tie the
\* floor, which min_by meets first in [top_left, top_right, bottom_left,
\* bottom_right].
nearest(f) == IF f[2] <= f[3] - f[2] THEN f[1] ELSE f[1] + 1

\* The intersection a stone has the least error to.
least_e_intersection(stone, s2) ==
    <<nearest(column(stone, s2)), nearest(row(stone, s2))>>

\* intersection_stones after the loop over the stones: for every preferred
\* intersection its claimants, in the order of the stones.
place_stones(stns, s2) ==
    LET pref == [i \in 1..Len(stns) |-> least_e_intersection(stns[i], s2)]
        idx == [i \in 1..Len(stns) |-> i]
        claimants(k) == SelectSeq(idx, LAMBDA i : pref[i] = k)
    IN  [k \in {pref[i] : i \in 1..Len(stns)} |->
            [j \in 1..Len(claimants(k)) |-> stns[claimants(k)[j]]]]

\* stones_to_reassign is not empty: some intersection has more than one
\* claimant.
must_reassign(placed) == \E k \in DOMAIN placed : Len(placed[k]) > 1

\* The squared distance from column (or row) f to the nearer of its floor and
\* ceil, in units of 10^-8: the distance is cut to four decimals, which
\* orders the errors of the stones of the model as the f32 values do.
distance_square(f) ==
    LET q == ScaledDivMod(10000, Min(f[2], f[3] - f[2]), f[3])[1]
    IN  q * q

\* least_e: the error of a stone to the intersection it prefers.
least_e(stone, s2) ==
    distance_square(column(stone, s2)) + distance_square(row(stone, s2))

\* The claimant that stays after stones.sort_by(error) and drain(1..): the one
\* with the least error, the earliest of them when errors are equal (the sort
\* is stable).
kept_stone(claimants, s2) ==
    claimants[CHOOSE i \in 1..Len(claimants) :
                  \A j \in 1..Len(claimants) :
                      \/ least_e(claimants[i], s2) < least_e(claimants[j], s2)
                      \/ /\ least_e(claimants[i], s2) = least_e(claimants[j], s2)
                         /\ i <= j]

\* intersection_stones after the loop over values_mut().
drained(placed, s2) ==
    [k \in DOMAIN placed |-> <<kept_stone(placed[k], s2)>>]

\* stones_to_reassign after that loop.
to_reassign(placed, s2) ==
    UNION {{placed[k][j] : j \in 1..Len(placed[k])}
               \ {kept_stone(placed[k], s2)} : k \in DOMAIN placed}

(***************************************************************************)
(* xd: the distance sampler                                                *)
(***************************************************************************)
\* The pairs of a loop that runs over stones[0..stones.len() - 1].
sampled_pairs_ToLast(n) == [i \in 1..(n - 1) |-> <<i - 1, i>>]

\* The index pairs (from 0) of the loop over stones[0..stones.len() - 2]:
\* (i, i + 1) for every i below n - 2.
sampled_pairs(n) == [i \in 1..(n - 2) |-> <<i - 1, i>>]

\* center_distances after the loop: for every pair the x distance, then the y
\* distance, both pushed without a condition.
sampled_distances(cs) ==
    LET prs == sampled_pairs(Len(cs))
    IN  [j \in 1..(2 * Len(prs)) |->
            LET pr == prs[(j + 1) \div 2]
                stone == cs[pr[1] + 1]
                next_stone == cs[pr[2] + 1]
            IN  IF j % 2 = 1 THEN diff(stone.x, next_stone.x)
                ELSE diff(stone.y, next_stone.y)]

\* The integer n as an f32.
Whole(n) == [nan |-> FALSE, num |-> n, den |-> 1]

(***************************************************************************)
(* xd: the refinement loop of the spacing estimator                        *)
(*                                                                         *)
(* The f32 values of the loop are kept as exact fractions, and NaN.  The   *)
(* f32 loop can leave the exact one where a rounding error decides: where  *)
(* average_change is exactly 1 or -1, or a quotient d / estimate lies      *)
(* exactly half-way between two integers.  The distances and estimates of  *)
(* SpecEstimator meet neither case, and on them the f32 loop runs the same *)
(* iterations as the exact one.                                            *)
(***************************************************************************)
RECURSIVE Gcd(_, _)
Gcd(a, b) == IF b = 0 THEN a ELSE Gcd(b, a % b)

\* The fraction n / d, d > 0, in lowest terms.
Fraction(n, d) ==
    LET g == Gcd(Abs(n), d)
    IN  [nan |-> FALSE, num |-> n \div g, den |-> d \div g]

\* f32 addition, subtraction, and division by a count; NaN is absorbing and
\* 0.0 / 0 is NaN.
Plus(p, q) ==
    IF p.nan \/ q.nan THEN NaN
    ELSE Fraction(p.num * q.den + q.num * p.den, p.den * q.den)

Minus(p, q) ==
    IF p.nan \/ q.nan THEN NaN
    ELSE Fraction(p.num * q.den - q.num * p.den, p.den * q.den)

DividedBy(p, n) ==
    IF p.nan \/ n = 0 THEN NaN ELSE Fraction(p.num, p.den * n)

\* (d / e).round() that rounds down.
round_Truncating(d, e) == (d * e.den) \div e.num

\* (d / e).round() for a distance d >= 0 and an estimate e > 0: f32::round
\* rounds half-way cases away from zero.
round(d, e) == (2 * d * e.den + e.num) \div (2 * e.num)

\* d / closest_int, where closest_int = (d / e).round().max(1.0).  With e = 0
\* the quotient d / e is NaN (d = 0), for which max yields 1.0, or infinite
\* (d > 0), for which d / closest_int is 0.
over_closest_int(d, e) ==
    IF e.num = 0 THEN Zero
    ELSE Fraction(d, Max(1, round(d, e)))

\* total_change after the inner loop over center_distances.
RECURSIVE total_change(_, _)
total_change(ds, e) ==
    IF ds = <<>> THEN Zero
    ELSE Plus(total_change(SubSeq(ds, 1, Len(ds) - 1), e),
              Minus(over_closest_int(ds[Len(ds)], e), e))

\* average_change of one iteration; NaN once the estimate is NaN.
average(ds, e) ==
    IF e.nan THEN NaN ELSE DividedBy(total_change(ds, e), Len(ds))

\* average_change.abs() < 1.0, false for NaN.
below_one(a) == ~a.nan /\ Abs(a.num) < a.den

(***************************************************************************)
(* SpecPipe: from the flood-filled objects to the outcome                  *)
(***************************************************************************)
\* The <<width, height>> an object of the input can have: noise, stones of
\* several sizes, and the sizes on the edges of the filters' windows.
SizeChoices ==
    << <<5, 5>>, <<6, 3>>, <<7, 7>>, <<9, 12>>, <<12, 12>>, <<18, 12>>,
       <<18, 18>>, <<33, 50>>, <<50, 50>> >>

\* Columns and rows of false cells between neighbouring objects.
Gaps == {1, 8}

\* The top-left corner of the first object.
Origin == Point_new(10, 10)

box(x, y, size) ==
    [top_left |-> Point_new(x, y),
     bottom_right |-> Point_new(x + size[1], y + size[2])]

\* Solid rectangles of the given sizes, RowLength to a row, left to right and
\* top to bottom with gap false cells between them: the objects the scan
\* finds, in the order it finds them.  placed are the boxes so far, (x, y) the
\* corner of the next box of the row and bottom the lowest cell of the row.
RECURSIVE LayoutFrom(_, _, _, _, _, _)
LayoutFrom(sizes, gap, placed, x, y, bottom) ==
    IF Len(placed) = Len(sizes) THEN placed
    ELSE LET i == Len(placed) + 1
             newRow == i > 1 /\ (i - 1) % RowLength = 0
             bx == IF newRow THEN Origin.x ELSE x
             by == IF newRow THEN bottom + 1 + gap ELSE y
             b == box(bx, by, sizes[i])
         IN  LayoutFrom(sizes, gap, Append(placed, b),
                        b.bottom_right.x + 1 + gap, by,
                        IF newRow THEN b.bottom_right.y
                        ELSE Max(bottom, b.bottom_right.y))

Layout(sizes, gap) ==
    LayoutFrom(sizes, gap, <<>>, Origin.x, Origin.y, Origin.y)

\* The non-decreasing sequences of length n over lo..hi.
RECURSIVE NonDecreasing(_, _, _)
NonDecreasing(n, lo, hi) ==
    IF n = 0 THEN {<<>>}
    ELSE UNION {{<<k>> \o t : t \in NonDecreasing(n - 1, k, hi)} : k \in lo..hi}

\* The inputs: up to MaxBlobs objects; which sizes occur, and how often, is
\* free, and the objects come in the order of SizeChoices.
InitPipe ==
    /\ pc = "objects"
    /\ version \in {"board", "xd"}
    /\ \E n \in 0..MaxBlobs, gap \in Gaps :
           \E pick \in NonDecreasing(n, 1, Len(SizeChoices)) :
               objects = Layout([i \in 1..n |-> SizeChoices[pick[i]]], gap)
    /\ returned = <<>>
    /\ ScanIdle
    /\ PixelIdle
    /\ PipeIdle
    /\ XdIdle
    /\ ScaleIdle

\* find_black_objects filters the objects and returns.
FindBlackObjectsReturn ==
    /\ pc = "objects"
    /\ returned' = PostFilter(version, objects)
    /\ pc' = "black_objects"
    /\ UNCHANGED <<scanVars, objects, pixelVars, pipeVars, xdVars, scaleVars>>

\* find_black_stones: black_objects is empty; None reaches the caller through
\* the ? operator.
FindBlackStonesNone ==
    /\ pc = "black_objects"
    /\ returned = <<>>
    /\ result' = None
    /\ pc' = "done"
    /\ UNCHANGED <<scanVars, listVars, pixelVars, version, stones,
                   stone_size_x2, stone_centers, intersection_stones,
                   stones_to_reassign, called, xdVars, scaleVars>>

\* find_black_stones: the medians, the stone filter, Some((size, stones)).
FindBlackStonesSome ==
    /\ pc = "black_objects"
    /\ returned # <<>>
    /\ stones' = filter_stones(returned)
    /\ stone_size_x2' = returned_size_x2(version, returned)
    /\ pc' = "stones"
    /\ UNCHANGED <<scanVars, listVars, pixelVars, version, stone_centers,
                   intersection_stones, stones_to_reassign, result, called,
                   xdVars, scaleVars>>

\* board_map: fewer stones than MIN_BLACK_STONES_ON_BOARD.
BoardMapTooFew ==
    /\ pc = "stones"
    /\ version = "board"
    /\ Len(stones) < MIN_BLACK_STONES_ON_BOARD
    /\ stone_centers' = centers(stones)
    /\ result' = None
    /\ pc' = "done"
    /\ UNCHANGED <<scanVars, listVars, pixelVars, version, stones,
                   stone_size_x2, intersection_stones, stones_to_reassign,
                   called, xdVars, scaleVars>>

\* board_map calls transformation_error, no two stones prefer the same
\* intersection, the error is printed and board_map ends with None.
BoardMapFitted ==
    /\ pc = "stones"
    /\ version = "board"
    /\ Len(stones) >= MIN_BLACK_STONES_ON_BOARD
    /\ LET placed == place_stones(centers(stones), stone_size_x2)
       IN  /\ ~must_reassign(placed)
           /\ intersection_stones' = placed
    /\ stone_centers' = centers(stones)
    /\ called' = called \cup {"transformation_error"}
    /\ result' = None
    /\ pc' = "done"
    /\ UNCHANGED <<scanVars, listVars, pixelVars, version, stones,
                   stone_size_x2, stones_to_reassign, xdVars, scaleVars>>

\* board_map calls transformation_error, two stones prefer the same
\* intersection, all but the one with the least error are drained from it, and
\* transformation_error ends in todo!().
BoardMapTodo ==
    /\ pc = "stones"
    /\ version = "board"
    /\ Len(stones) >= MIN_BLACK_STONES_ON_BOARD
    /\ LET placed == place_stones(centers(stones), stone_size_x2)
       IN  /\ must_reassign(placed)
           /\ intersection_stones' = drained(placed, stone_size_x2)
           /\ stones_to_reassign' = to_reassign(placed, stone_size_x2)
    /\ stone_centers' = centers(stones)
    /\ called' = called \cup {"transformation_error"}
    /\ result' = Panicked
    /\ pc' = "done"
    /\ UNCHANGED <<scanVars, listVars, pixelVars, version, stones,
                   stone_size_x2, xdVars, scaleVars>>

\* xd with fewer than two stones: stones.len() - 1 (no stone) or
\* stones.len() - 2 (one stone) underflows usize.  A build with overflow checks
\* panics at the subtraction; one without them wraps and panics at the
\* allocation or at the slice.
XdTooFew ==
    /\ pc = "stones"
    /\ version = "xd"
    /\ Len(stones) < 2
    /\ stone_centers' = centers(stones)
    /\ result' = Panicked
    /\ pc' = "done"
    /\ UNCHANGED <<scanVars, listVars, pixelVars, version, stones,
                   stone_size_x2, intersection_stones, stones_to_reassign,
                   called, xdVars, scaleVars>>

\* xd with two stones or more: the centers, the sampled distances, and the
\* entry of the refinement loop, which no condition guards.
XdSample ==
    /\ pc = "stones"
    /\ version = "xd"
    /\ Len(stones) >= 2
    /\ stone_centers' = centers(stones)
    /\ pairs' = sampled_pairs(Len(stones))
    /\ center_distances' = sampled_distances(centers(stones))
    /\ neighbor_stone_distance' = Whole(stone_size_x2 \div 2)
    /\ called' = called \cup {"sampler", "loop"}
    /\ pc' = "loop"
    /\ UNCHANGED <<scanVars, listVars, pixelVars, version, stones,
                   stone_size_x2, intersection_stones, stones_to_reassign,
                   result, average_change, iterations, scaleVars>>

NextPipe ==
    \/ FindBlackObjectsReturn
    \/ FindBlackStonesNone
    \/ FindBlackStonesSome
    \/ BoardMapTooFew
    \/ BoardMapFitted
    \/ BoardMapTodo
    \/ XdTooFew
    \/ XdSample

SpecPipe == InitPipe /\ [][NextPipe]_vars

(***************************************************************************)
(* Properties of the pipeline (under SpecPipe)                             *)
(***************************************************************************)
Range(f) == {f[i] : i \in DOMAIN f}

\* The element at index len / 2 (from 0) of the values in ascending order,
\* by rank: at most len / 2 values are smaller, more than len / 2 are not
\* larger.
MedianByRank(vals) ==
    CHOOSE m \in Range(vals) :
        /\ Cardinality({i \in DOMAIN vals : vals[i] < m}) <= Len(vals) \div 2
        /\ Cardinality({i \in DOMAIN vals : vals[i] <= m}) > Len(vals) \div 2

Width(o) == o.bottom_right.x - o.top_left.x
Height(o) == o.bottom_right.y - o.top_left.y

w_med == MedianByRank([i \in 1..Len(returned) |-> Width(returned[i])])
h_med == MedianByRank([i \in 1..Len(returned) |-> Height(returned[i])])

BoardMapDone == version = "board" /\ pc = "done"

\* find_black_stones has returned Some((size, stones)).
StonesFiltered == pc \in {"stones", "done"} /\ returned # <<>>

\* find_black_objects has returned.
ObjectsFiltered == pc \in {"black_objects", "stones", "done"}

\* C3: a call to board_map ends by returning Some or None, never in an abort.
C3_OutcomeTotality ==
    BoardMapDone => result.kind \in {"Some", "None"}

\* C4: when the stone filter accepts fewer than six blobs, board_map returns
\* None and transformation_error is never entered.
C4_TooFewStones ==
    (BoardMapDone /\ Len(stones) < 6) =>
        /\ result = None
        /\ "transformation_error" \notin called

\* board_map has returned None with five accepted stones, one short of six.
C4_Witness ==
    /\ BoardMapDone
    /\ Len(stones) = 5
    /\ result = None
    /\ "transformation_error" \notin called

\* The other two cases C4 names are reached as well: nothing survives the
\* size post-filter, and the input holds no object at all.
C4_NothingLeft ==
    /\ BoardMapDone
    /\ objects # <<>>
    /\ returned = <<>>
    /\ result = None

\* The stone centers lie on the grid (ref + k*s, ref + j*s), k, j in -5..5.
OnGrid(stns, ref, s) ==
    \A i \in 1..Len(stns) :
        LET c == BlackStone_center(stns[i])
        IN  /\ (c.x - ref.x) % s = 0
            /\ (c.y - ref.y) % s = 0
            /\ (c.x - ref.x) \div s \in -5..5
            /\ (c.y - ref.y) \div s \in -5..5

GridKeys(stns, ref, s) ==
    {<<(BlackStone_center(stns[i]).x - ref.x) \div s,
       (BlackStone_center(stns[i]).y - ref.y) \div s>> : i \in 1..Len(stns)}

\* The grids the accepted stones lie on: a reference stone and a pitch larger
\* than the stone size.
Grids ==
    {g \in Range(centers(stones)) \X (1..100) :
        /\ 2 * g[2] > stone_size_x2
        /\ OnGrid(stones, g[1], g[2])}

\* C5: when at least six accepted stones lie on a regular grid, board_map
\* returns Some(map) whose keys are exactly the grid coordinates of the stones,
\* with (0,0) mapped to the center of the reference stone.
C5_LatticeSnapping ==
    (BoardMapDone /\ Len(stones) >= 6 /\ Grids # {}) =>
        /\ result.kind = "Some"
        /\ \E g \in Grids :
               /\ DOMAIN result.map = GridKeys(stones, g[1], g[2])
               /\ result.map[<<0, 0>>] = g[1]

InWindow(o) ==
    /\ 66 * w_med < 100 * Width(o)
    /\ 2 * Width(o) < 3 * w_med
    /\ 66 * h_med < 100 * Height(o)
    /\ 2 * Height(o) < 3 * h_med

\* C7: the stone filter accepts a blob exactly when its width lies strictly
\* between 0.66 and 1.5 times the median width and its height strictly between
\* 0.66 and 1.5 times the median height, the medians being the elements at
\* index len/2 of the sorted widths and heights.
C7_StoneFilterAcceptance ==
    StonesFiltered =>
        \A i \in 1..Len(returned) :
            returned[i] \in Range(stones) <=> InWindow(returned[i])

\* A blob whose width is exactly 1.5 times the median width, with its height
\* inside the window, is rejected while another blob is accepted.
C7_Witness ==
    /\ StonesFiltered
    /\ \E i \in 1..Len(returned) :
           /\ 2 * Width(returned[i]) = 3 * w_med
           /\ 66 * h_med < 100 * Height(returned[i])
           /\ 2 * Height(returned[i]) < 3 * h_med
           /\ returned[i] \notin Range(stones)
    /\ stones # <<>>

\* The lower end is strict as well: a blob whose width is exactly 0.66 times
\* the median width is rejected.
C7_LowerEdge ==
    /\ StonesFiltered
    /\ \E i \in 1..Len(returned) :
           /\ 100 * Width(returned[i]) = 66 * w_med
           /\ 66 * h_med < 100 * Height(returned[i])
           /\ 2 * Height(returned[i]) < 3 * h_med
           /\ returned[i] \notin Range(stones)

\* C8: in board.rs and in xd.rs alike, the size find_black_stones returns is
\* (w_med + h_med) / 2.
C8_StoneSize ==
    StonesFiltered => stone_size_x2 = w_med + h_med

\* What each version returns: board.rs the mean of the medians, xd.rs their sum.
StoneSizeByVersion ==
    StonesFiltered =>
        /\ version = "board" => stone_size_x2 = w_med + h_med
        /\ version = "xd" => stone_size_x2 = 2 * (w_med + h_med)

Discarded(o) == o \in Range(objects) /\ o \notin Range(returned)

\* C9: find_black_objects discards a blob exactly when both its width and its
\* height are at most 5.
C9_AbsoluteFloor ==
    ObjectsFiltered =>
        \A i \in 1..Len(objects) :
            Discarded(objects[i]) <=>
                (Width(objects[i]) <= 5 /\ Height(objects[i]) <= 5)

\* C9 as amended: the statement holds of the find_black_objects of xd.rs.
C9_AbsoluteFloorXd ==
    (ObjectsFiltered /\ version = "xd") =>
        \A i \in 1..Len(objects) :
            Discarded(objects[i]) <=>
                (Width(objects[i]) <= 5 /\ Height(objects[i]) <= 5)

\* xd.rs returns a blob that is wide but not high and discards a 5 by 5 blob.
C9_Witness ==
    /\ ObjectsFiltered
    /\ version = "xd"
    /\ \E i \in 1..Len(objects) :
           /\ Width(objects[i]) > 5
           /\ Height(objects[i]) <= 5
           /\ ~Discarded(objects[i])
    /\ \E i \in 1..Len(objects) :
           /\ Width(objects[i]) = 5
           /\ Height(objects[i]) = 5
           /\ Discarded(objects[i])

AspectGate(o) ==
    /\ 66 * Height(o) < 100 * Width(o)
    /\ 2 * Width(o) < 3 * Height(o)

\* C10: the find_black_objects of board.rs returns a blob exactly when its
\* width and height exceed 5 and 0.66*height < width < 1.5*height.
C10_StricterPostFilter ==
    (ObjectsFiltered /\ version = "board") =>
        \A i \in 1..Len(objects) :
            ~Discarded(objects[i]) <=>
                /\ Width(objects[i]) > 5
                /\ Height(objects[i]) > 5
                /\ AspectGate(objects[i])

\* C10 as amended: the floor is 8, not 5.
C10_StricterPostFilter8 ==
    (ObjectsFiltered /\ version = "board") =>
        \A i \in 1..Len(objects) :
            ~Discarded(objects[i]) <=>
                /\ Width(objects[i]) > 8
                /\ Height(objects[i]) > 8
                /\ AspectGate(objects[i])

\* board.rs discards a 7 by 7 blob inside the aspect gate, discards a blob
\* whose width is exactly 1.5 times its height, and returns a 9 by 12 blob.
C10_Witness ==
    /\ ObjectsFiltered
    /\ version = "board"
    /\ \E i \in 1..Len(objects) :
           /\ Width(objects[i]) = 7
           /\ Height(objects[i]) = 7
           /\ Discarded(objects[i])
    /\ \E i \in 1..Len(objects) :
           /\ Width(objects[i]) > 8
           /\ 2 * Width(objects[i]) = 3 * Height(objects[i])
           /\ Discarded(objects[i])
    /\ \E i \in 1..Len(objects) :
           /\ Width(objects[i]) = 9
           /\ Height(objects[i]) = 12
           /\ ~Discarded(objects[i])

\* The cell at which the scan first meets a solid rectangle is its top left
\* corner.
FirstMet(o) == o.top_left

InScanOrder(list) ==
    \A i, j \in 1..Len(list) :
        i < j => RowMajorBefore(FirstMet(list[i]), FirstMet(list[j]))

\* kept is list with some elements removed and the others in their order.
\* The objects of a list are distinct, so this is: kept is what remains of
\* list when the elements outside kept are struck out.
RemovesWithoutReordering(list, kept) ==
    /\ Range(kept) \subseteq Range(list)
    /\ kept = SelectSeq(list, LAMBDA o : o \in Range(kept))

\* C20: the blobs find_black_objects returns and the stones find_black_stones
\* keeps are in the row-major order (increasing y, then increasing x) of the
\* cells at which the scan first met them, and the post-filter and the stone
\* filter remove elements without reordering the others.
C20_ExtractionOrder ==
    /\ InScanOrder(returned)
    /\ InScanOrder(stones)
    /\ pc # "objects" => RemovesWithoutReordering(objects, returned)
    /\ pc \notin {"objects", "black_objects"} /\ returned # <<>> =>
           RemovesWithoutReordering(returned, stones)

\* Stones on two rows of objects, left after the post-filter removed the
\* object before them and the stone filter the object after them.
C20_Witness ==
    /\ pc = "stones"
    /\ Len(stones) >= 3
    /\ objects[1] \notin Range(returned)
    /\ returned[Len(returned)] \notin Range(stones)
    /\ stones[1] = objects[2]
    /\ stones[1].top_left.y < stones[Len(stones)].top_left.y

(***************************************************************************)
(* Properties of the sampler of xd (under SpecPipe)                        *)
(***************************************************************************)
\* The sampler of xd has run.
XdSampled == version = "xd" /\ "sampler" \in called

\* The pairs of the three rules, for a list of n centers.
ThreeRulePairs(n) ==
    UNION {{<<i, i + 1>>, <<i, n - 1 - i>>}
               \cup (IF i < n \div 2 THEN {<<i, i + n \div 2>>} ELSE {}) :
           i \in 0..(n - 3)}

\* C11: for N centers the sampler takes, for each i below N - 2, the pairs
\* (i, i+1), (i, N-1-i) and, when i < N/2, (i, i+N/2), and no other pair.
C11_PairingPolicy ==
    XdSampled => Range(pairs) = ThreeRulePairs(Len(stone_centers))

\* C11 as amended: the sampler takes the pair (i, i+1) for each i below N - 2,
\* in this order, and no other pair.
C11_AdjacentPairsOnly ==
    XdSampled =>
        /\ Len(pairs) = Len(stone_centers) - 2
        /\ \A i \in 1..Len(pairs) : pairs[i] = <<i - 1, i>>

\* Five centers were sampled: three adjacent pairs, none across the list, and
\* none for the last two stones.
C11_Witness ==
    /\ XdSampled
    /\ Len(stone_centers) = 5
    /\ Range(pairs) = {<<0, 1>>, <<1, 2>>, <<2, 3>>}

\* The distances the claimed rule emits for the pairs taken: dx when it
\* exceeds the stone size, then dy when it exceeds the stone size.
RECURSIVE EmittedOverSize(_, _, _)
EmittedOverSize(cs, prs, size_x2) ==
    IF prs = <<>> THEN <<>>
    ELSE LET a == cs[Head(prs)[1] + 1]
             b == cs[Head(prs)[2] + 1]
             dx == Abs(a.x - b.x)
             dy == Abs(a.y - b.y)
         IN  (IF 2 * dx > size_x2 THEN <<dx>> ELSE <<>>)
             \o (IF 2 * dy > size_x2 THEN <<dy>> ELSE <<>>)
             \o EmittedOverSize(cs, Tail(prs), size_x2)

\* C12: for every pair taken, dx is in the sample exactly when it exceeds the
\* stone size, and so is dy; every sampled distance exceeds the stone size.
C12_PerPairEmission ==
    XdSampled =>
        /\ center_distances =
               EmittedOverSize(stone_centers, pairs, stone_size_x2)
        /\ \A j \in 1..Len(center_distances) :
               2 * center_distances[j] > stone_size_x2

\* What the code emits: both distances of every pair, zero included.
EmitsEveryDistance ==
    XdSampled =>
        /\ Len(center_distances) = 2 * Len(pairs)
        /\ \A i \in 1..Len(pairs) :
               LET a == stone_centers[pairs[i][1] + 1]
                   b == stone_centers[pairs[i][2] + 1]
               IN  /\ center_distances[2 * i - 1] = Abs(a.x - b.x)
                   /\ center_distances[2 * i] = Abs(a.y - b.y)

\* C14: when the distance sample is empty, xd returns "no board" and the
\* refinement loop is not entered.
C14_EmptySample ==
    (XdSampled /\ center_distances = <<>>) =>
        /\ result = None
        /\ "loop" \notin called

(***************************************************************************)
(* SpecEstimator: the refinement loop of xd, from its entry                *)
(***************************************************************************)
\* The sample has at most this many distances.
MaxSample == 3
\* The iterations of the loop that are followed.
MaxIterations == 65

\* The distances of the samples and the initial estimates.
Distances == {0, 6, 15, 37, 39}
Estimates == {15, 20, 22}

Samples == UNION {[1..n -> Distances] : n \in 0..MaxSample}

InitEstimator ==
    /\ pc = "loop"
    /\ version = "xd"
    /\ center_distances \in Samples
    /\ \E e \in Estimates : neighbor_stone_distance = Whole(e)
    /\ average_change = Zero
    /\ iterations = 0
    /\ pairs = <<>>
    /\ objects = <<>>
    /\ returned = <<>>
    /\ stones = <<>>
    /\ stone_size_x2 = 0
    /\ stone_centers = <<>>
    /\ intersection_stones = <<>>
    /\ stones_to_reassign = {}
    /\ result = Pending
    /\ called = {"sampler", "loop"}
    /\ ScanIdle
    /\ PixelIdle
    /\ ScaleIdle

\* One iteration of the loop that does not reach the break.
LoopContinue ==
    /\ pc = "loop"
    /\ iterations < MaxIterations
    /\ LET a == average(center_distances, neighbor_stone_distance)
       IN  /\ ~below_one(a)
           /\ average_change' = a
           /\ neighbor_stone_distance' = Plus(neighbor_stone_distance, a)
    /\ iterations' = iterations + 1
    /\ UNCHANGED <<pc, scanVars, listVars, pixelVars, pipeVars,
                   center_distances, pairs, scaleVars>>

\* The iteration that reaches the break; xd prints the estimate and returns
\* Some(()).
LoopBreak ==
    /\ pc = "loop"
    /\ iterations < MaxIterations
    /\ LET a == average(center_distances, neighbor_stone_distance)
       IN  /\ below_one(a)
           /\ average_change' = a
           /\ neighbor_stone_distance' = Plus(neighbor_stone_distance, a)
    /\ iterations' = iterations + 1
    /\ result' = [kind |-> "Some"]
    /\ pc' = "done"
    /\ UNCHANGED <<scanVars, listVars, pixelVars, version, stones,
                   stone_size_x2, stone_centers, intersection_stones,
                   stones_to_reassign, called, center_distances, pairs,
                   scaleVars>>

NextEstimator == LoopContinue \/ LoopBreak

SpecEstimator == InitEstimator /\ [][NextEstimator]_vars

\* C13: the refinement loop stops after at most 64 iterations, whatever the
\* sample and the initial estimate.
C13_IterationCap == iterations <= 64

\* The loop does end for every sample that is not empty.
EndsUnlessEmpty ==
    (pc = "loop" /\ center_distances # <<>>) => iterations < 64

\* The count k of the claim for a distance d and an estimate e > 0: the
\* integer nearest to d / e, the larger one when two are equally near, and at
\* least 1.  (For e = 0 only d = 0 occurs, and the code takes k = 1.)
NearestCount(d, e) ==
    IF e.num = 0 THEN 1
    ELSE LET r == CHOOSE r \in 0..((d * e.den) \div e.num + 1) :
                      /\ (2 * r - 1) * e.num <= 2 * d * e.den
                      /\ 2 * d * e.den < (2 * r + 1) * e.num
         IN  IF r < 1 THEN 1 ELSE r

\* The mean over the sample of delta = d / k - estimate.
RECURSIVE SumDelta(_, _)
SumDelta(ds, e) ==
    IF ds = <<>> THEN Zero
    ELSE Plus(Minus(Fraction(Head(ds), NearestCount(Head(ds), e)), e),
              SumDelta(Tail(ds), e))

MeanDelta(ds, e) == DividedBy(SumDelta(ds, e), Len(ds))

\* C19: an iteration over a sample that is not empty adds to the estimate the
\* mean of delta = d / k - estimate, k = max(1, round(d / estimate)), and the
\* loop exits in that iteration exactly when the absolute value of the mean
\* is below 1, with the estimate already updated.
C19_EstimatorStep ==
    [][(pc = "loop" /\ center_distances # <<>>) =>
           LET m == MeanDelta(center_distances, neighbor_stone_distance)
           IN  /\ neighbor_stone_distance' = Plus(neighbor_stone_distance, m)
               /\ pc' = "done" <=> (m.num < m.den /\ -m.num < m.den)
               /\ pc' \in {"loop", "done"}]_vars

\* The loop has left in its fourth iteration, the first with a mean below 1,
\* after a quotient was rounded up and a zero distance was divided by 1.
C19_Witness ==
    /\ pc = "done"
    /\ iterations = 4
    /\ 0 \in Range(center_distances)
    /\ ~average_change.nan
    /\ Abs(average_change.num) < average_change.den
    /\ average_change.num # 0
    /\ neighbor_stone_distance.den > 1

(***************************************************************************)
(* Properties of the collisions of transformation_error (under SpecPipe)   *)
(***************************************************************************)
\* The stones that claim intersection k.
Claimants(k) ==
    {c \in Range(stone_centers) : least_e_intersection(c, stone_size_x2) = k}

\* transformation_error was called and two stones claim one intersection.
Collided ==
    /\ BoardMapDone
    /\ "transformation_error" \in called
    /\ \E c1, c2 \in Range(stone_centers) :
           /\ c1 # c2
           /\ least_e_intersection(c1, stone_size_x2)
                  = least_e_intersection(c2, stone_size_x2)

\* Every intersection holds one stone, a claimant of the least error.
LeastErrorKeeps ==
    \A k \in DOMAIN intersection_stones :
        /\ Len(intersection_stones[k]) = 1
        /\ intersection_stones[k][1] \in Claimants(k)
        /\ \A c \in Claimants(k) :
               least_e(intersection_stones[k][1], stone_size_x2)
                   <= least_e(c, stone_size_x2)

\* C15: when two or more stones claim one intersection, the one with the
\* lowest error keeps it, the others are dropped, and the computation goes on
\* to a result.
C15_CollisionResolution ==
    Collided =>
        /\ LeastErrorKeeps
        /\ result.kind \in {"Some", "None"}

\* What the code does at a collision: the one with the lowest error keeps the
\* intersection, and the call aborts because the others wait to be reassigned.
CollisionEndsInTodo ==
    Collided =>
        /\ LeastErrorKeeps
        /\ stones_to_reassign # {}
        /\ result = Panicked

(***************************************************************************)
(* SpecCenter: BlackStone::center on every small box                       *)
(***************************************************************************)
\* Boxes have their coordinates in 0..MaxCoord.
MaxCoord == 5

CenterBoxes ==
    {b \in [top_left : [x : 0..MaxCoord, y : 0..MaxCoord],
            bottom_right : [x : 0..MaxCoord, y : 0..MaxCoord]] :
        b.top_left.x <= b.bottom_right.x /\ b.top_left.y <= b.bottom_right.y}

InitCenter ==
    /\ pc = "box"
    /\ object \in CenterBoxes
    /\ image = <<>>
    /\ dims = <<0, 0>>
    /\ current_point = Point_new(0, 0)
    /\ point_queue = <<>>
    /\ input_image = <<>>
    /\ cleared = {}
    /\ object_cells = <<>>
    /\ advances = 0
    /\ pops = 0
    /\ entry_image = <<>>
    /\ objects = <<>>
    /\ returned = <<>>
    /\ version = "board"
    /\ PixelIdle
    /\ PipeIdle
    /\ XdIdle
    /\ ScaleIdle

\* stone.center() for the box.
Center ==
    /\ pc = "box"
    /\ stone_centers' = <<BlackStone_center(object)>>
    /\ pc' = "center"
    /\ UNCHANGED <<scanVars, listVars, pixelVars, version, stones,
                   stone_size_x2, intersection_stones, stones_to_reassign,
                   result, called, xdVars, scaleVars>>

NextCenter == Center

SpecCenter == InitCenter /\ [][NextCenter]_vars

\* The other form of the midpoint: top_left + (bottom_right - top_left + 1) / 2.
OtherMidpoint(b) ==
    Point_new(b.top_left.x + (b.bottom_right.x - b.top_left.x + 1) \div 2,
              b.top_left.y + (b.bottom_right.y - b.top_left.y + 1) \div 2)

\* C16: there is a box for which the center the code computes,
\* bottom_right - (bottom_right - top_left) / 2, differs from
\* top_left + (bottom_right - top_left + 1) / 2.
C16_MidpointFormsDiffer ==
    \E b \in CenterBoxes :
        /\ pc \in {"box", "center"}
        /\ BlackStone_center(b) # OtherMidpoint(b)

\* C16 as amended: the two forms agree on every box.
C16_MidpointFormsAgree ==
    pc = "center" => stone_centers[1] = OtherMidpoint(object)

\* A box of odd width and odd height: its center is the midpoint rounded up,
\* which is the other form and not the midpoint rounded down.
C16_Witness ==
    /\ pc = "center"
    /\ object.top_left = Point_new(1, 0)
    /\ object.bottom_right = Point_new(4, 3)
    /\ stone_centers[1] = Point_new(3, 2)
    /\ stone_centers[1] = OtherMidpoint(object)
    /\ stone_centers[1] # BlackStone_center_Low(object)

(***************************************************************************)
(* SpecScale: the stone filter on a list of blobs and on the same list     *)
(* with every blob scaled by a common factor                               *)
(***************************************************************************)
\* The blobs are scaled by a factor of at most MaxFactor.
MaxFactor == 3
\* The list has at most this many blobs.
MaxScaled == 3

\* The <<width, height>> a blob of the list can have.
ScaleSizes ==
    << <<6, 6>>, <<7, 7>>, <<9, 6>>, <<10, 7>>, <<33, 50>>, <<50, 50>> >>

\* The blob with its corners, and so its width and height, multiplied by c.
ScaleBox(o, c) ==
    [top_left |-> Point_new(c * o.top_left.x, c * o.top_left.y),
     bottom_right |-> Point_new(c * o.bottom_right.x, c * o.bottom_right.y)]

Scaled(objs, c) == [i \in 1..Len(objs) |-> ScaleBox(objs[i], c)]

InitScale ==
    /\ pc = "black_objects"
    /\ version = "board"
    /\ factor \in 1..MaxFactor
    /\ \E n \in 1..MaxScaled :
           \E pick \in [1..n -> 1..Len(ScaleSizes)] :
               returned = [i \in 1..n |-> box(0, 0, ScaleSizes[pick[i]])]
    /\ objects = returned
    /\ scaled_stones = <<>>
    /\ ScanIdle
    /\ PixelIdle
    /\ PipeIdle
    /\ XdIdle

\* The medians and the stone filter of find_black_stones, on the list and on
\* the scaled list.
FilterBoth ==
    /\ pc = "black_objects"
    /\ stones' = filter_stones(returned)
    /\ scaled_stones' = filter_stones(Scaled(returned, factor))
    /\ pc' = "stones"
    /\ UNCHANGED <<scanVars, listVars, pixelVars, version, stone_size_x2,
                   stone_centers, intersection_stones, stones_to_reassign,
                   result, called, xdVars, factor>>

NextScale == FilterBoth

SpecScale == InitScale /\ [][NextScale]_vars

\* The indices of list whose elements, in order, make up kept: kept is list
\* with some elements removed, and equal blobs are kept or removed together.
KeptIndices(list, kept) ==
    {i \in 1..Len(list) : list[i] \in Range(kept)}

\* C17: multiplying the width and height of every blob by a positive integer
\* leaves the set of indices the stone filter accepts unchanged.
C17_FilterScaleInvariant ==
    pc = "stones" =>
        KeptIndices(Scaled(returned, factor), scaled_stones)
            = KeptIndices(returned, stones)

\* Blobs scaled by 3 of which the filter keeps some and removes one that is
\* exactly 1.5 times as wide as the median.
C17_Witness ==
    /\ pc = "stones"
    /\ factor = 3
    /\ stones # <<>>
    /\ \E i \in 1..Len(returned) :
           /\ i \notin KeptIndices(returned, stones)
           /\ 2 * Width(returned[i]) = 3 * w_med
           /\ ScaleBox(returned[i], factor) \notin Range(scaled_stones)

====
